---- MODULE Spec2Model ----
(***************************************************************************)
(* Model of the raiko Nitro prover and of the EIP-4844 primitives.         *)
(*                                                                         *)
(*   provers/nitro/nitro-prover/src/main.rs  the vsock accept loop         *)
(*   provers/nitro/nitro-prover/src/lib.rs   NitroProver::run              *)
(*   lib/src/primitives/eip4844.rs           blob verification and cache   *)
(*                                                                         *)
(* Spec        the service process: main() and the calls it makes.         *)
(* SpecProver  a host process that calls NitroProver::run directly.        *)
(* SpecCache   threads writing and reading VERSION_HASH_AND_PROOF.         *)
(* SpecBlob    a caller of the blob verification functions.                *)
(* SpecPoison  SpecCache with a writer that panics holding the lock.       *)
(* SpecSetup   threads dereferencing the global trust parameters.          *)
(* SpecLib     SpecPoison beside a caller of the verification functions.   *)
(***************************************************************************)
EXTENDS Integers, Sequences, FiniteSets, TLC

VARIABLES
    pc,          \* position of the process's single thread
    subscriber,  \* TRUE once a global tracing subscriber is installed
    nsmOpen,     \* device handles opened by nsm_init and not yet closed
    nextFd,      \* the handle the next successful nsm_init returns
    keys,        \* number of signing keys drawn from OsRng so far
    conn,        \* the connection being handled (NoConn between connections)
    connCount,   \* connections accepted so far
    replies,     \* per connection id, the messages written back on it
    ran,         \* per connection id, how NitroProver::run ended for it
    parsed,      \* per connection id, what deserialization was attempted on
    last,        \* the most recent NitroProver::run invocation
    calls,       \* NitroProver::run invocations made by the host
    cache,       \* VERSION_HASH_AND_PROOF: the pair <<version hash, proof>>
    lockWriter,  \* the thread holding the write lock of the cache, or 0
    lockReaders, \* the threads holding a read lock of the cache
    th,          \* per thread, its position and its locals
    lastSet,     \* the blob of the last set_commitment_proof that returned
    poisoned,    \* TRUE once a writer panicked holding the write lock
    setupLoads,  \* constructions of MAINNET_KZG_TRUSTED_SETUP so far
    bcall,       \* the most recent call of a blob verification function
    cell,        \* the once-cell of MAINNET_KZG_TRUSTED_SETUP
    user         \* per thread, its position in a dereference of the global

procVars == <<pc, subscriber, nsmOpen, nextFd, keys, conn, connCount, replies,
              ran, parsed, last, calls>>
cacheVars == <<cache, lockWriter, lockReaders, th, lastSet, poisoned>>
blobVars == <<setupLoads, bcall, cell, user>>
vars == <<procVars, cacheVars, blobVars>>

\* ------------------------------------------------------------------ bounds

MaxConns == 3
MaxCalls == 2
NumThreads == 2
NumBlobs == 2
MaxBlobCalls == 2
MaxUses == 2
NumUsers == 3

\* ------------------------------------------------------------ option values

None == <<>>
Some(x) == <<x>>

\* ---------------------------------------------------------------- GuestInput

\* Classes of block data, by what the external pipeline does with them.
Contents == {"valid", "bad_block", "bad_pi"}
BlockTokens == {"1", "2"}
BoolTokens == {"true", "false"}

GuestInput(block, skip, content) ==
    [block_number |-> block,
     taiko |-> [skip_verify_blob |-> skip],
     content |-> content]

\* serde_json text of a GuestInput, one token per position.
to_json(input) ==
    <<"{", input.block_number,
      IF input.taiko.skip_verify_blob THEN "true" ELSE "false",
      input.content, "}">>

GuestInputs ==
    {GuestInput(b, s, c) : b \in BlockTokens, s \in BOOLEAN, c \in Contents}

\* serde_json::from_slice::<GuestInput>(&data)
from_slice(data) ==
    IF /\ Len(data) = 5
       /\ data[1] = "{"
       /\ data[2] \in BlockTokens
       /\ data[3] \in BoolTokens
       /\ data[4] \in Contents
       /\ data[5] = "}"
    THEN [ok |-> TRUE, value |-> GuestInput(data[2], data[3] = "true", data[4])]
    ELSE [ok |-> FALSE, value |-> None]

\* ------------------------------------------------------------------ framing

\* What a client puts on the wire: a length prefix and the bytes that follow.
Payloads == {to_json(i) : i \in GuestInputs} \cup {<<"x", "y">>}

Frames ==
    UNION {{[declared |-> n, bytes |-> p] :
               n \in {Len(p) - 1, Len(p), Len(p) + 1}} : p \in Payloads}

\* protocol_helper::recv_message: the declared number of bytes, or an error
\* when the stream ends before that many were received.
recv_message(frame) ==
    IF Len(frame.bytes) >= frame.declared
    THEN [ok |-> TRUE, value |-> SubSeq(frame.bytes, 1, frame.declared)]
    ELSE [ok |-> FALSE, value |-> <<>>]

\* protocol_helper::send_message: fails when the peer is gone.
send_message(clientUp, msg) ==
    IF clientUp THEN [ok |-> TRUE, written |-> <<msg>>]
    ELSE [ok |-> FALSE, written |-> <<>>]

\* ------------------------------------------------------- tracing subscriber

\* tracing::subscriber::set_global_default: the first call of the process
\* installs the subscriber, every later call is an error.
SetGlobalDefaultAlwaysOk(installed) ==
    [ok |-> TRUE, installed |-> TRUE]

set_global_default(installed) ==
    [ok |-> ~installed, installed |-> TRUE]

\* ------------------------------------------------- external block pipeline

\* TaikoStrategy::build_from(&input)
build_from(input) ==
    IF input.content = "bad_block"
    THEN [ok |-> FALSE, value |-> None]
    ELSE [ok |-> TRUE, value |-> Some(input.block_number)]

\* ProtocolInstance::new(&input, &header, VerifierType::Nitro)
ProtocolInstance_new(input, header) ==
    IF input.content = "bad_pi"
    THEN [ok |-> FALSE, value |-> None]
    ELSE [ok |-> TRUE, value |-> [header |-> header, verifier |-> "Nitro"]]

\* pi.instance_hash()
instance_hash(pi) == [hash_of |-> pi]

\* ------------------------------------------------------------------ signing

VerifyingKey_from(key) == [public_of |-> key]
sign(key, msg) == [signer |-> key, msg |-> msg]

\* ------------------------------------------------------- attestation device

\* How the NSM device behaves during one call: it attests, it answers with an
\* error, it answers with a response of another kind, it cannot be opened, or
\* it never answers the request.
DeviceBehaviours == {"attest", "error", "other", "absent", "hang"}

\* nsm_init(): a handle, or -1 when the device cannot be opened.
nsm_init(dev, fd) == IF dev = "absent" THEN -1 ELSE fd

\* nsm_process_request(fd, request)
nsm_process_request(dev, fd, request) ==
    IF fd < 0 \/ dev = "error" THEN [kind |-> "Error", document |-> None]
    ELSE IF dev = "hang" THEN [kind |-> "never", document |-> None]
    ELSE IF dev = "other" THEN [kind |-> "GetRandom", document |-> None]
    ELSE [kind |-> "Attestation",
          document |-> Some([user_data |-> request.user_data,
                             nonce |-> request.nonce,
                             public_key |-> request.public_key])]

NoRequest == [kind |-> "none", user_data |-> None, nonce |-> None,
              public_key |-> None]

\* lib.rs:59-63, the request built for the device.
AttestationRequestWithNonce(user_data, public) ==
    [kind |-> "Attestation",
     user_data |-> Some(user_data),
     nonce |-> Some(user_data),
     public_key |-> Some(public)]

AttestationRequest(user_data, public) ==
    [kind |-> "Attestation",
     user_data |-> Some(user_data),
     nonce |-> None,
     public_key |-> Some(public)]

\* The let-else pattern of lib.rs:64.
AnyResponseIsAttestation(response) == TRUE

IsAttestation(response) == response.kind = "Attestation"

\* ---------------------------------------------------------- NitroProver::run

\* The precondition of lib.rs:35: the call goes on only with the skip flag set.
PreconditionIgnored(input) == TRUE

Precondition(input) == input.taiko.skip_verify_blob

\* How a call ends: Ok(document), Err(GuestError) or process::exit(1).
RunEnd(outcome, document, error, steps, sub, open, fd, nkeys, request) ==
    [outcome |-> outcome, document |-> document, error |-> error,
     steps |-> steps, subscriber |-> sub, nsmOpen |-> open, nextFd |-> fd,
     keys |-> nkeys, request |-> request]

\* NitroProver::run(input, _, _) started with the given process state, `dev`
\* being what the device does during the call.
run(input, dev, sub, open, fd0, nkeys) ==
    LET s1 == set_global_default(sub)
        t1 == <<"set_global_default">>
        t2 == t1 \o <<"skip_check">>
        built == build_from(input)
        t3 == t2 \o <<"build_from">>
        pi == ProtocolInstance_new(input, built.value[1])
        t4 == t3 \o <<"ProtocolInstance_new">>
        pi_hash == instance_hash(pi.value)
        nsm_fd == nsm_init(dev, fd0)
        open1 == IF nsm_fd < 0 THEN open ELSE open \cup {nsm_fd}
        fd1 == IF nsm_fd < 0 THEN fd0 ELSE fd0 + 1
        signing_key == nkeys + 1
        public == VerifyingKey_from(signing_key)
        signature == sign(signing_key, pi_hash)
        request == AttestationRequest(signature, public)
        response == nsm_process_request(dev, nsm_fd, request)
        t5 == t4 \o <<"instance_hash", "nsm_init", "SigningKey_random", "sign",
                      "nsm_process_request">>
    IN
    IF ~s1.ok
    THEN RunEnd("Err", None, "subscriber", t1, s1.installed, open, fd0, nkeys,
                NoRequest)
    ELSE IF ~Precondition(input)
    THEN RunEnd("Exit", None, "", t2, s1.installed, open, fd0, nkeys, NoRequest)
    ELSE IF ~built.ok
    THEN RunEnd("Err", None, "build_from", t3, s1.installed, open, fd0, nkeys,
                NoRequest)
    ELSE IF ~pi.ok
    THEN RunEnd("Err", None, "ProtocolInstance", t4, s1.installed, open, fd0,
                nkeys, NoRequest)
    ELSE IF response.kind = "never"
    THEN RunEnd("Hang", None, "", t5, s1.installed, open1, fd1, signing_key,
                request)
    ELSE IF ~IsAttestation(response)
    THEN RunEnd("Err", None, "Failed to collect attestation document", t5,
                s1.installed, open1, fd1, signing_key, request)
    ELSE RunEnd("Ok", response.document, "", t5 \o <<"nsm_exit">>,
                s1.installed, open1 \ {nsm_fd}, fd1, signing_key, request)

\* ------------------------------------------------------------------ SHA-256

\* A 32-bit word is the pair <<high 16 bits, low 16 bits>>.
Half == 65536

RECURSIVE XorBits(_, _)
XorBits(a, b) ==
    IF a = 0 THEN b
    ELSE IF b = 0 THEN a
    ELSE ((a + b) % 2) + 2 * XorBits(a \div 2, b \div 2)

RECURSIVE AndBits(_, _)
AndBits(a, b) ==
    IF a = 0 \/ b = 0 THEN 0
    ELSE ((a % 2) * (b % 2)) + 2 * AndBits(a \div 2, b \div 2)

WXor(x, y) == <<XorBits(x[1], y[1]), XorBits(x[2], y[2])>>
WAnd(x, y) == <<AndBits(x[1], y[1]), AndBits(x[2], y[2])>>
WNot(x) == <<(Half - 1) - x[1], (Half - 1) - x[2]>>
WAdd(x, y) ==
    LET lo == x[2] + y[2]
        hi == x[1] + y[1] + (lo \div Half)
    IN <<hi % Half, lo % Half>>

\* Rotation and shift to the right by n bits.
RotrSmall(x, n) ==
    LET p == 2 ^ n
        q == 2 ^ (16 - n)
    IN <<(x[1] \div p) + (x[2] % p) * q, (x[2] \div p) + (x[1] % p) * q>>
Rotr(x, n) ==
    IF n >= 16 THEN RotrSmall(<<x[2], x[1]>>, n - 16) ELSE RotrSmall(x, n)
Shr(x, n) ==
    LET p == 2 ^ n
        q == 2 ^ (16 - n)
    IN <<x[1] \div p, (x[2] \div p) + (x[1] % p) * q>>

Sha256K ==
    <<
      <<17034, 12184>>, <<28983, 17553>>, <<46528, 64463>>, <<59829, 56229>>,
      <<14678, 49755>>, <<23025, 4593>>, <<37439, 33444>>, <<43804, 24277>>,
      <<55303, 43672>>, <<4739, 23297>>, <<9265, 34238>>, <<21772, 32195>>,
      <<29374, 23924>>, <<32990, 45566>>, <<39900, 1703>>, <<49563, 61812>>,
      <<58523, 27073>>, <<61374, 18310>>, <<4033, 40390>>, <<9228, 41420>>,
      <<11753, 11375>>, <<19060, 33962>>, <<23728, 43484>>, <<30457, 35034>>,
      <<38974, 20818>>, <<43057, 50797>>, <<45059, 10184>>, <<48985, 32711>>,
      <<50912, 3059>>, <<54695, 37191>>, <<1738, 25425>>, <<5161, 10599>>,
      <<10167, 2693>>, <<11803, 8504>>, <<19756, 28156>>, <<21304, 3347>>,
      <<25866, 29524>>, <<30314, 2747>>, <<33218, 51502>>, <<37490, 11397>>,
      <<41663, 59553>>, <<43034, 26187>>, <<49739, 35696>>, <<51052, 20899>>,
      <<53650, 59417>>, <<54937, 1572>>, <<62478, 13701>>, <<4202, 41072>>,
      <<6564, 49430>>, <<7735, 27656>>, <<10056, 30540>>, <<13488, 48309>>,
      <<14620, 3251>>, <<20184, 43594>>, <<23452, 51791>>, <<26670, 28659>>,
      <<29839, 33518>>, <<30885, 25455>>, <<33992, 30740>>, <<36039, 520>>,
      <<37054, 65530>>, <<42064, 27883>>, <<48889, 41975>>, <<50801, 30962>>
    >>

Sha256H0 ==
    <<
      <<27145, 58983>>, <<47975, 44677>>, <<15470, 62322>>, <<42319, 62778>>,
      <<20750, 21119>>, <<39685, 26764>>, <<8067, 55723>>, <<23520, 52505>>
    >>

SmallSigma0(x) == WXor(WXor(Rotr(x, 7), Rotr(x, 18)), Shr(x, 3))
SmallSigma1(x) == WXor(WXor(Rotr(x, 17), Rotr(x, 19)), Shr(x, 10))
BigSigma0(x) == WXor(WXor(Rotr(x, 2), Rotr(x, 13)), Rotr(x, 22))
BigSigma1(x) == WXor(WXor(Rotr(x, 6), Rotr(x, 11)), Rotr(x, 25))
Ch(x, y, z) == WXor(WAnd(x, y), WAnd(WNot(x), z))
Maj(x, y, z) == WXor(WXor(WAnd(x, y), WAnd(x, z)), WAnd(y, z))

\* The message with the padding: 0x80, zeros, the bit length on 8 bytes.
Zeros(n) == [i \in 1..n |-> 0]

Sha256Pad(msg) ==
    LET bits == 8 * Len(msg)
        fill == (119 - Len(msg)) % 64
    IN msg \o <<128>> \o Zeros(fill) \o <<0, 0, 0, 0>>
           \o <<(bits \div 16777216) % 256, (bits \div 65536) % 256,
                (bits \div 256) % 256, bits % 256>>

\* The 16 words of the block that starts after `off` bytes.
BlockWords(m, off) ==
    [t \in 1..16 |->
        <<m[off + 4 * t - 3] * 256 + m[off + 4 * t - 2],
          m[off + 4 * t - 1] * 256 + m[off + 4 * t]>>]

RECURSIVE Schedule(_)
Schedule(w) ==
    IF Len(w) >= 64 THEN w
    ELSE LET t == Len(w) + 1 IN
         Schedule(Append(w,
            WAdd(WAdd(SmallSigma1(w[t - 2]), w[t - 7]),
                 WAdd(SmallSigma0(w[t - 15]), w[t - 16]))))

\* One round on the working variables a..h.
Round(s, wt, kt) ==
    LET t1 == WAdd(WAdd(WAdd(s[8], BigSigma1(s[5])),
                        WAdd(Ch(s[5], s[6], s[7]), kt)), wt)
        t2 == WAdd(BigSigma0(s[1]), Maj(s[1], s[2], s[3]))
    IN <<WAdd(t1, t2), s[1], s[2], s[3], WAdd(s[4], t1), s[5], s[6], s[7]>>

\* The working variables after each of the 64 rounds, the start first.
RECURSIVE Rounds(_, _)
Rounds(trace, w) ==
    IF Len(trace) > 64 THEN trace
    ELSE LET t == Len(trace) IN
         Rounds(Append(trace, Round(trace[t], w[t], Sha256K[t])), w)

Compress(h, m, off) ==
    LET s == Rounds(<<h>>, Schedule(BlockWords(m, off)))[65]
    IN [i \in 1..8 |-> WAdd(h[i], s[i])]

RECURSIVE Blocks(_, _, _)
Blocks(h, m, off) ==
    IF off >= Len(m) THEN h ELSE Blocks(Compress(h, m, off), m, off + 64)

\* Sha256::digest(bytes): the 32 bytes of the digest.
Sha256_digest(bytes) ==
    LET h == Blocks(Sha256H0, Sha256Pad(bytes), 0) IN
    [i \in 1..32 |->
        LET word == h[((i - 1) \div 4) + 1]
            half == IF ((i - 1) % 4) < 2 THEN word[1] ELSE word[2]
        IN IF (i - 1) % 2 = 0 THEN half \div 256 ELSE half % 256]

\* -------------------------------------------------------------- eip4844.rs

VERSIONED_HASH_VERSION_KZG == 1
BYTES_PER_BLOB == 131072

Blobs == 1..NumBlobs

\* The 48 bytes of the commitment and of the opening proof of blob b, as the
\* KZG library gives them.
CommitmentBytes(b) == [k \in 1..48 |-> (b * k + 191) % 256]
ProofBytes(b) == [k \in 1..48 |-> (b * 31 + k) % 256]

\* commitment_to_version_hash(commitment)
DigestUnversioned(commitment) == Sha256_digest(commitment)

commitment_to_version_hash(commitment) ==
    LET hash == Sha256_digest(commitment) IN
    [hash EXCEPT ![1] = VERSIONED_HASH_VERSION_KZG]

\* B256::default() and [0u8; 48]
ZeroHash == [k \in 1..32 |-> 0]
ZeroGroup == [k \in 1..48 |-> 0]
PairOfOnes == <<[k \in 1..32 |-> 1], [k \in 1..48 |-> 1]>>

InitialPair == <<ZeroHash, ZeroGroup>>

\* -------------------------------------------------- set_commitment_proof

\* eip4844.rs:119, the version hash the call stores.
VersionHashOfProof(proof, commitment) == commitment_to_version_hash(proof)

set_version_hash(proof, commitment) == commitment_to_version_hash(commitment)

\* The version hash each set_commitment_proof call of the model computes.
SetVersionHash ==
    [b \in Blobs |-> set_version_hash(ProofBytes(b), CommitmentBytes(b))]

\* RwLock::write(): the lock is granted when nobody holds it.
WriteGrantedAmongReaders(writer, readers) == writer = 0

WriteGranted(writer, readers) == writer = 0 /\ readers = {}

\* RwLock::read(): the lock is granted when no writer holds it.
ReadGranted(writer) == writer = 0

\* eip4844.rs:121-123, what follows write(): with the lock poisoned the
\* error is mapped to SetCommitmentProof and returned by `?`, otherwise the
\* guard is written through.
AfterWriteIgnoringPoison(isPoisoned) == "set_store_hash"

AfterWrite(isPoisoned) == IF isPoisoned THEN "set_err" ELSE "set_store_hash"

Threads == 1..NumThreads

Idle == [pc |-> "idle", blob |-> 0, version_hash |-> ZeroHash,
         copy |-> InitialPair]

InitCache ==
    /\ cache = InitialPair
    /\ lockWriter = 0
    /\ lockReaders = {}
    /\ th = [t \in Threads |-> Idle]
    /\ lastSet = 0
    /\ poisoned = FALSE

\* set_commitment_proof(proof, commitment) is entered: eip4844.rs:119.
SetBegin(t) ==
    /\ th[t].pc = "idle"
    /\ \E b \in Blobs :
          th' = [th EXCEPT ![t] = [pc |-> "set_lock", blob |-> b,
                                   version_hash |-> SetVersionHash[b],
                                   copy |-> InitialPair]]
    /\ UNCHANGED <<cache, lockWriter, lockReaders, lastSet>>
    /\ UNCHANGED <<procVars, blobVars, poisoned>>

\* eip4844.rs:121-123: VERSION_HASH_AND_PROOF.write()
SetLock(t) ==
    /\ th[t].pc = "set_lock"
    /\ WriteGranted(lockWriter, lockReaders)
    /\ lockWriter' = IF AfterWrite(poisoned) = "set_err" THEN lockWriter ELSE t
    /\ th' = [th EXCEPT ![t].pc = AfterWrite(poisoned)]
    /\ UNCHANGED <<cache, lockReaders, lastSet>>
    /\ UNCHANGED <<procVars, blobVars, poisoned>>

\* eip4844.rs:124: the pair is stored through the guard, field by field.
SetStoreHash(t) ==
    /\ th[t].pc = "set_store_hash"
    /\ cache' = <<th[t].version_hash, cache[2]>>
    /\ th' = [th EXCEPT ![t].pc = "set_store_proof"]
    /\ UNCHANGED <<lockWriter, lockReaders, lastSet>>
    /\ UNCHANGED <<procVars, blobVars, poisoned>>

SetStoreProof(t) ==
    /\ th[t].pc = "set_store_proof"
    /\ cache' = <<cache[1], ProofBytes(th[t].blob)>>
    /\ th' = [th EXCEPT ![t].pc = "set_unlock"]
    /\ UNCHANGED <<lockWriter, lockReaders, lastSet>>
    /\ UNCHANGED <<procVars, blobVars, poisoned>>

\* eip4844.rs:124-126: the guard is dropped and the call returns Ok(()).
SetUnlock(t) ==
    /\ th[t].pc = "set_unlock"
    /\ lockWriter' = 0
    /\ lastSet' = th[t].blob
    /\ th' = [th EXCEPT ![t] = Idle]
    /\ UNCHANGED <<cache, lockReaders>>
    /\ UNCHANGED <<procVars, blobVars, poisoned>>

\* eip4844.rs:123: the call has returned Err(SetCommitmentProof).
SetFailed(t) ==
    /\ th[t].pc = "set_err"
    /\ th' = [th EXCEPT ![t] = Idle]
    /\ UNCHANGED <<cache, lockWriter, lockReaders, lastSet>>
    /\ UNCHANGED <<procVars, blobVars, poisoned>>

\* A writer outside set_commitment_proof takes the write lock and panics
\* in the middle of its update: the lock is released poisoned.
WriterPanics ==
    /\ ~poisoned
    /\ WriteGranted(lockWriter, lockReaders)
    /\ poisoned' = TRUE
    /\ \E b \in Blobs :
          cache' \in {cache, <<SetVersionHash[b], cache[2]>>}
    /\ UNCHANGED <<lockWriter, lockReaders, th, lastSet>>
    /\ UNCHANGED <<procVars, blobVars>>

\* The read accessor: take a read lock, copy the pair out, release; a
\* poisoned lock gives the reader no pair.
ReadLock(t) ==
    /\ th[t].pc = "idle"
    /\ ReadGranted(lockWriter)
    /\ ~poisoned
    /\ lockReaders' = lockReaders \cup {t}
    /\ th' = [th EXCEPT ![t].pc = "read_hash"]
    /\ UNCHANGED <<cache, lockWriter, lastSet>>
    /\ UNCHANGED <<procVars, blobVars, poisoned>>

ReadHash(t) ==
    /\ th[t].pc = "read_hash"
    /\ th' = [th EXCEPT ![t].copy = <<cache[1], @[2]>>,
                        ![t].pc = "read_proof"]
    /\ UNCHANGED <<cache, lockWriter, lockReaders, lastSet>>
    /\ UNCHANGED <<procVars, blobVars, poisoned>>

ReadProof(t) ==
    /\ th[t].pc = "read_proof"
    /\ th' = [th EXCEPT ![t].copy = <<@[1], cache[2]>>,
                        ![t].pc = "read_done"]
    /\ UNCHANGED <<cache, lockWriter, lockReaders, lastSet>>
    /\ UNCHANGED <<procVars, blobVars, poisoned>>

ReadUnlock(t) ==
    /\ th[t].pc = "read_done"
    /\ lockReaders' = lockReaders \ {t}
    /\ th' = [th EXCEPT ![t] = Idle]
    /\ UNCHANGED <<cache, lockWriter, lastSet>>
    /\ UNCHANGED <<procVars, blobVars, poisoned>>

\* ------------------------------------------------ blob verification engine

Ok(value) == [ok |-> TRUE, value |-> Some(value), error |-> "", msg |-> ""]
Err(error, msg) == [ok |-> FALSE, value |-> None, error |-> error, msg |-> msg]

\* A blob by what the KZG library reads of it: its length, whether its field
\* elements are all canonical, and which polynomial it encodes.
BlobLens == {0, BYTES_PER_BLOB - 1, BYTES_PER_BLOB, BYTES_PER_BLOB + 1}
BlobData ==
    {[len |-> n, canonical |-> c, id |-> b] :
        n \in BlobLens, c \in BOOLEAN, b \in Blobs}

\* Trust parameters: the mainnet ones, the caller's own, and a caller's set
\* one of the library's computations fails on.
LibraryFailures == {"none", "commit", "evaluate", "prove"}
Mainnet == [name |-> "mainnet", fails |-> "none"]
KzgSettings == {[name |-> "override", fails |-> f] : f \in LibraryFailures}
KzgSettingsOptions == {None} \cup {Some(k) : k \in KzgSettings}

TaikoInput(skip, tx_data, kzg_settings) ==
    [taiko |-> [skip_verify_blob |-> skip, tx_data |-> tx_data,
                kzg_settings |-> kzg_settings]]

TaikoInputs ==
    {TaikoInput(s, d, k) :
        s \in BOOLEAN, d \in BlobData, k \in KzgSettingsOptions}

\* Blob::from_bytes(bytes).map(|b| deserialize_blob_rust(&b)).flatten()
DeserializeAnyBlob(blob) == Ok([fields_of |-> blob.id])

deserialize_blob(blob) ==
    IF blob.len = BYTES_PER_BLOB /\ blob.canonical
    THEN Ok([fields_of |-> blob.id])
    ELSE Err("DeserializeBlob", "")

\* The library's computations with the given trust parameters.
blob_to_kzg_commitment_rust(blob_fields, kzg_settings) ==
    IF kzg_settings.fails # "commit" THEN Ok(blob_fields.fields_of)
    ELSE Err("", "commitment failed")

evaluate_polynomial_in_evaluation_form(poly, point, kzg_settings) ==
    IF kzg_settings.fails # "evaluate"
    THEN Ok([value_of |-> poly, at |-> point, with |-> kzg_settings.name])
    ELSE Err("", "evaluation failed")

compute_kzg_proof_rust(blob_fields, challenge, kzg_settings) ==
    IF kzg_settings.fails # "prove" THEN Ok(blob_fields.fields_of)
    ELSE Err("", "proof failed")

\* The version hash of the commitment of each blob.
VersionHashOfBlob ==
    [b \in Blobs |-> commitment_to_version_hash(CommitmentBytes(b))]

\* What a call leaves: its result, the steps it ran, the global's loads.
BlobEnd(ret, steps, loads) == [ret |-> ret, steps |-> steps, loads |-> loads]

\* &*MAINNET_KZG_TRUSTED_SETUP: the first use constructs it.
ForceGlobal(loads) == IF loads = 0 THEN 1 ELSE loads

\* eip4844.rs:55 and :69, the test of the skip flag.
NeverSkipped(input) == FALSE

Skipped(input) == input.taiko.skip_verify_blob

\* proof_of_equivalence_eval(blob, kzg_settings)
proof_of_equivalence_eval(blob, kzg_settings) ==
    LET blob_fields == deserialize_blob(blob) IN
    IF ~blob_fields.ok
    THEN [ret |-> Err("DeserializeBlob", ""), steps |-> <<"deserialize">>]
    ELSE LET poly == [poly_of |-> blob_fields.value[1].fields_of]
             point == [hash_to_bls_field |-> [sha256_of |-> blob.id]]
             y == evaluate_polynomial_in_evaluation_form(poly, point,
                                                         kzg_settings)
         IN [ret |-> IF y.ok THEN Ok(y.value[1])
                     ELSE Err("EvaluatePolynomial", y.msg),
             steps |-> <<"deserialize", "blob_to_polynomial",
                         "hash_to_bls_field", "evaluate">>]

\* proof_of_equivalence(input)
ProofOfEquivalenceOnGlobal(input, loads) ==
    IF Skipped(input) THEN BlobEnd(Ok(None), <<>>, loads)
    ELSE LET eval == proof_of_equivalence_eval(input.taiko.tx_data, Mainnet)
         IN BlobEnd(IF eval.ret.ok THEN Ok(Some(eval.ret.value[1]))
                    ELSE eval.ret,
                    <<"MAINNET_KZG_TRUSTED_SETUP">> \o eval.steps,
                    ForceGlobal(loads))

proof_of_equivalence(input, loads) ==
    IF Skipped(input) THEN BlobEnd(Ok(None), <<>>, loads)
    ELSE LET override == input.taiko.kzg_settings
             kzg_settings == IF override # None THEN override[1] ELSE Mainnet
             loads1 == IF override # None THEN loads ELSE ForceGlobal(loads)
             picked == IF override # None THEN <<>>
                       ELSE <<"MAINNET_KZG_TRUSTED_SETUP">>
             eval == proof_of_equivalence_eval(input.taiko.tx_data,
                                               kzg_settings)
         IN BlobEnd(IF eval.ret.ok THEN Ok(Some(eval.ret.value[1]))
                    ELSE eval.ret,
                    picked \o eval.steps, loads1)

\* proof_of_version_hash(input)
proof_of_version_hash(input, loads) ==
    IF Skipped(input) THEN BlobEnd(Ok(None), <<>>, loads)
    ELSE LET blob_fields == deserialize_blob(input.taiko.tx_data)
             override == input.taiko.kzg_settings
             kzg_settings == IF override # None THEN override[1] ELSE Mainnet
             loads1 == IF override # None THEN loads ELSE ForceGlobal(loads)
             picked == IF override # None THEN <<>>
                       ELSE <<"MAINNET_KZG_TRUSTED_SETUP">>
             commitment == blob_to_kzg_commitment_rust(blob_fields.value[1],
                                                       kzg_settings)
         IN IF ~blob_fields.ok
            THEN BlobEnd(Err("DeserializeBlob", ""), <<"deserialize">>, loads)
            ELSE IF ~commitment.ok
            THEN BlobEnd(Err("ComputeKzgProof", commitment.msg),
                         <<"deserialize">> \o picked \o <<"commit">>, loads1)
            ELSE BlobEnd(Ok(Some(VersionHashOfBlob[commitment.value[1]])),
                         <<"deserialize">> \o picked
                            \o <<"commit", "commitment_to_version_hash">>,
                         loads1)

\* get_kzg_proof_commitment(blob, kzg_settings)
get_kzg_proof_commitment(blob, kzg_settings, loads) ==
    LET blob_fields == deserialize_blob(blob)
        commitment == blob_to_kzg_commitment_rust(blob_fields.value[1],
                                                  kzg_settings)
        challenge == [compute_challenge |-> blob.id]
        proof == compute_kzg_proof_rust(blob_fields.value[1], challenge,
                                        kzg_settings)
    IN IF ~blob_fields.ok
       THEN BlobEnd(Err("DeserializeBlob", ""), <<"deserialize">>, loads)
       ELSE IF ~commitment.ok
       THEN BlobEnd(Err("ComputeKzgProof", commitment.msg),
                    <<"deserialize", "commit">>, loads)
       ELSE IF ~proof.ok
       THEN BlobEnd(Err("ComputeKzgProof", proof.msg),
                    <<"deserialize", "commit", "compute_challenge", "prove">>,
                    loads)
       ELSE BlobEnd(Ok(<<ProofBytes(proof.value[1]),
                         CommitmentBytes(commitment.value[1])>>),
                    <<"deserialize", "commit", "compute_challenge", "prove">>,
                    loads)

NoBlobCall ==
    [fn |-> "none", input |-> None, res |-> None, loads0 |-> 0, count |-> 0]

\* eip4844.rs:24-33, Lazy::new: the cell starts empty and the closure has
\* not run.
EmptyCell == [state |-> "incomplete", handle |-> None]
Users == 1..NumUsers
NoUse == [pc |-> "idle", handle |-> None, uses |-> 0]

InitBlob ==
    /\ setupLoads = 0
    /\ bcall = NoBlobCall
    /\ cell = EmptyCell
    /\ user = [t \in Users |-> NoUse]

\* The once-cell after a call that ran alone: a call that constructed the
\* global (eip4844.rs:62, :77) leaves the cell complete, holding the Arc.
CellAfter(c, loads0, loads1) ==
    IF loads1 # loads0
    THEN [state |-> "complete",
          handle |-> Some([arc |-> loads1, of |-> Mainnet])]
    ELSE c

\* Lazy::force: the thread that finds the cell incomplete runs the closure.
ClaimableUntilComplete(state) == state # "complete"

Claimable(state) == state = "incomplete"

\* A non-skipped call without an override reaches &*MAINNET_KZG_TRUSTED_SETUP
\* (eip4844.rs:62 and :77).
LazyDeref(t) ==
    /\ user[t].pc = "idle"
    /\ user[t].uses < MaxUses
    /\ user' = [user EXCEPT ![t].pc = "deref", ![t].handle = None]
    /\ UNCHANGED <<setupLoads, bcall, cell>>
    /\ UNCHANGED <<procVars, cacheVars>>

\* The thread takes the initialization on itself and runs the closure of
\* eip4844.rs:25-33: load_trusted_setup_rust on the hard-coded points.
LazyInit(t) ==
    /\ user[t].pc = "deref"
    /\ Claimable(cell.state)
    /\ cell' = [cell EXCEPT !.state = "running"]
    /\ setupLoads' = setupLoads + 1
    /\ user' = [user EXCEPT ![t].pc = "init"]
    /\ UNCHANGED bcall
    /\ UNCHANGED <<procVars, cacheVars>>

\* The closure returned: the Arc is stored and the cell is complete.
LazyStore(t) ==
    /\ user[t].pc = "init"
    /\ cell' = [state |-> "complete",
                handle |-> Some([arc |-> setupLoads, of |-> Mainnet])]
    /\ user' = [user EXCEPT ![t].pc = "deref"]
    /\ UNCHANGED <<setupLoads, bcall>>
    /\ UNCHANGED <<procVars, cacheVars>>

\* A thread that finds the cell complete gets the stored handle; one that
\* finds it running waits.
LazyGet(t) ==
    /\ user[t].pc = "deref"
    /\ cell.state = "complete"
    /\ user' = [user EXCEPT ![t].pc = "using", ![t].handle = cell.handle]
    /\ UNCHANGED <<setupLoads, bcall, cell>>
    /\ UNCHANGED <<procVars, cacheVars>>

\* The verification call returns.
LazyReturn(t) ==
    /\ user[t].pc = "using"
    /\ user' = [user EXCEPT ![t].pc = "idle", ![t].uses = @ + 1]
    /\ UNCHANGED <<setupLoads, bcall, cell>>
    /\ UNCHANGED <<procVars, cacheVars>>

\* ------------------------------------------------------------------- main()

NoConn == [id |-> 0, frame |-> [declared |-> 0, bytes |-> <<>>],
           data |-> <<>>, input |-> None]
NoCall == [input |-> None, dev |-> "none", clientUp |-> FALSE, res |-> None]

ConnIds == 1..MaxConns

\* serde_json::to_string(&proof_value) of the Proof made from the document.
to_string(proof_value) == [json_of |-> proof_value]

\* Where the thread that called NitroProver::run is after the call: run is
\* awaited in the caller's own task (main.rs:37) and nsm_process_request is
\* a blocking call (lib.rs:64), process::exit ends the process (lib.rs:37).
AfterRun(outcome, back) ==
    IF outcome = "Exit" THEN "exited"
    ELSE IF outcome = "Hang" THEN "stalled"
    ELSE back

\* main.rs:38-55, the match on what run returned: the messages written back.
ReplyOnAnyResult(res, clientUp) ==
    IF res.outcome = "Ok"
    THEN send_message(clientUp, to_string(res.document[1])).written
    ELSE send_message(clientUp, to_string(res.error)).written

Reply(res, clientUp) ==
    IF res.outcome = "Ok"
    THEN send_message(clientUp, to_string(res.document[1])).written
    ELSE <<>>

\* main.rs:28-31, what follows recv_message: deserialize, or drop the
\* connection.
AfterRecvAlwaysParse(received) == "parse"

AfterRecv(received) == IF received.ok THEN "parse" ELSE "accept"

InitProcess ==
    /\ subscriber = FALSE
    /\ nsmOpen = {}
    /\ nextFd = 3
    /\ keys = 0
    /\ conn = NoConn
    /\ connCount = 0
    /\ replies = [c \in ConnIds |-> <<>>]
    /\ ran = [c \in ConnIds |-> "none"]
    /\ parsed = [c \in ConnIds |-> "none"]
    /\ last = NoCall
    /\ calls = 0

Init ==
    /\ pc = "start"
    /\ InitProcess
    /\ InitCache
    /\ InitBlob

\* main.rs:10-18: install the subscriber; a failure is printed and ignored.
MainInit ==
    /\ pc = "start"
    /\ subscriber' = set_global_default(subscriber).installed
    /\ pc' = "bind"
    /\ UNCHANGED <<nsmOpen, nextFd, keys, conn, connCount, replies, ran,
                   parsed, last, calls>>
    /\ UNCHANGED <<cacheVars, blobVars>>

\* main.rs:20-21: VsockListener::bind(..).expect(..)
Bind ==
    /\ pc = "bind"
    /\ pc' = "accept"
    /\ UNCHANGED <<subscriber, nsmOpen, nextFd, keys, conn, connCount,
                   replies, ran, parsed, last, calls>>
    /\ UNCHANGED <<cacheVars, blobVars>>

BindFail ==
    /\ pc = "bind"
    /\ pc' = "panicked"
    /\ UNCHANGED <<subscriber, nsmOpen, nextFd, keys, conn, connCount,
                   replies, ran, parsed, last, calls>>
    /\ UNCHANGED <<cacheVars, blobVars>>

\* main.rs:23-26: listener.incoming() yields a stream.
Accept ==
    /\ pc = "accept"
    /\ connCount < MaxConns
    /\ \E frame \in Frames :
          conn' = [id |-> connCount + 1, frame |-> frame, data |-> <<>>,
                   input |-> None]
    /\ connCount' = connCount + 1
    /\ pc' = "recv"
    /\ UNCHANGED <<subscriber, nsmOpen, nextFd, keys, replies, ran, parsed,
                   last, calls>>
    /\ UNCHANGED <<cacheVars, blobVars>>

\* main.rs:59: the accept itself failed; log and go on.
AcceptErr ==
    /\ pc = "accept"
    /\ UNCHANGED vars

\* main.rs:27-31
Recv ==
    /\ pc = "recv"
    /\ LET received == recv_message(conn.frame) IN
          /\ conn' = [conn EXCEPT !.data = received.value]
          /\ pc' = AfterRecv(received)
    /\ UNCHANGED <<subscriber, nsmOpen, nextFd, keys, connCount, replies,
                   ran, parsed, last, calls>>
    /\ UNCHANGED <<cacheVars, blobVars>>

\* main.rs:32-35
Parse ==
    /\ pc = "parse"
    /\ LET guest_input == from_slice(conn.data) IN
          /\ conn' = [conn EXCEPT !.input =
                         IF guest_input.ok THEN Some(guest_input.value)
                         ELSE None]
          /\ pc' = IF guest_input.ok THEN "serve" ELSE "accept"
    /\ parsed' = [parsed EXCEPT ![conn.id] =
                     IF recv_message(conn.frame).ok THEN "whole" ELSE "partial"]
    /\ UNCHANGED <<subscriber, nsmOpen, nextFd, keys, connCount, replies,
                   ran, last, calls>>
    /\ UNCHANGED <<cacheVars, blobVars>>

\* main.rs:36-56: run the prover on the input and answer the connection.
Serve ==
    /\ pc = "serve"
    /\ \E dev \in DeviceBehaviours, clientUp \in BOOLEAN :
          LET res == run(conn.input[1], dev, subscriber, nsmOpen, nextFd, keys)
          IN
          /\ last' = [input |-> conn.input, dev |-> dev,
                      clientUp |-> clientUp, res |-> Some(res)]
          /\ subscriber' = res.subscriber
          /\ nsmOpen' = res.nsmOpen
          /\ nextFd' = res.nextFd
          /\ keys' = res.keys
          /\ ran' = [ran EXCEPT ![conn.id] = res.outcome]
          /\ replies' = [replies EXCEPT ![conn.id] =
                            @ \o (IF res.outcome \in {"Exit", "Hang"} THEN <<>>
                                  ELSE Reply(res, clientUp))]
          /\ pc' = AfterRun(res.outcome, "accept")
    /\ UNCHANGED <<conn, connCount, parsed, calls>>
    /\ UNCHANGED <<cacheVars, blobVars>>

Next ==
    \/ MainInit
    \/ Bind
    \/ BindFail
    \/ Accept
    \/ AcceptErr
    \/ Recv
    \/ Parse
    \/ Serve

Spec == Init /\ [][Next]_vars

\* --------------------------------------------- a host calling run directly

InitProver ==
    /\ pc = "host"
    /\ InitProcess
    /\ InitCache
    /\ InitBlob

\* One call of NitroProver::run by the embedding process.
HostRun ==
    /\ pc = "host"
    /\ calls < MaxCalls
    /\ \E input \in GuestInputs, dev \in DeviceBehaviours :
          LET res == run(input, dev, subscriber, nsmOpen, nextFd, keys) IN
          /\ last' = [input |-> Some(input), dev |-> dev,
                      clientUp |-> FALSE, res |-> Some(res)]
          /\ subscriber' = res.subscriber
          /\ nsmOpen' = res.nsmOpen
          /\ nextFd' = res.nextFd
          /\ keys' = res.keys
          /\ pc' = AfterRun(res.outcome, "host")
    /\ calls' = calls + 1
    /\ UNCHANGED <<conn, connCount, replies, ran, parsed>>
    /\ UNCHANGED <<cacheVars, blobVars>>

NextProver == HostRun

SpecProver == InitProver /\ [][NextProver]_vars

\* ------------------------------------------- threads sharing the cache

InitCacheUsers ==
    /\ pc = "lib"
    /\ InitProcess
    /\ InitCache
    /\ InitBlob

NextCache ==
    \E t \in Threads :
        \/ SetBegin(t)
        \/ SetLock(t)
        \/ SetStoreHash(t)
        \/ SetStoreProof(t)
        \/ SetUnlock(t)
        \/ ReadLock(t)
        \/ ReadHash(t)
        \/ ReadProof(t)
        \/ ReadUnlock(t)

SpecCache == InitCacheUsers /\ [][NextCache]_vars

\* ------------------------------- the cache with a panicking writer around

NextPoison ==
    \/ NextCache
    \/ WriterPanics
    \/ \E t \in Threads : SetFailed(t)

SpecPoison == InitCacheUsers /\ [][NextPoison]_vars

\* --------------------------------- a caller of the verification functions

InitBlobCaller ==
    /\ pc = "lib"
    /\ InitProcess
    /\ InitCache
    /\ InitBlob

\* What the caller keeps of a call: the function, its input, what it left.
CallRecord(fn, input, res) ==
    [fn |-> fn, input |-> Some(input), res |-> Some(res),
     loads0 |-> setupLoads, count |-> bcall.count + 1]

CallProofOfEquivalence ==
    /\ bcall.count < MaxBlobCalls
    /\ \E input \in TaikoInputs :
          LET res == proof_of_equivalence(input, setupLoads) IN
          /\ bcall' = CallRecord("proof_of_equivalence", input, res)
          /\ setupLoads' = res.loads
          /\ cell' = CellAfter(cell, setupLoads, res.loads)
    /\ UNCHANGED user
    /\ UNCHANGED <<procVars, cacheVars>>

CallProofOfVersionHash ==
    /\ bcall.count < MaxBlobCalls
    /\ \E input \in TaikoInputs :
          LET res == proof_of_version_hash(input, setupLoads) IN
          /\ bcall' = CallRecord("proof_of_version_hash", input, res)
          /\ setupLoads' = res.loads
          /\ cell' = CellAfter(cell, setupLoads, res.loads)
    /\ UNCHANGED user
    /\ UNCHANGED <<procVars, cacheVars>>

\* The arguments are recorded in the shape of an input.
CallGetKzgProofCommitment ==
    /\ bcall.count < MaxBlobCalls
    /\ \E blob \in BlobData, kzg_settings \in KzgSettings :
          LET res == get_kzg_proof_commitment(blob, kzg_settings, setupLoads)
          IN
          /\ bcall' = CallRecord("get_kzg_proof_commitment",
                                 TaikoInput(FALSE, blob, Some(kzg_settings)),
                                 res)
          /\ setupLoads' = res.loads
    /\ UNCHANGED <<cell, user>>
    /\ UNCHANGED <<procVars, cacheVars>>

NextBlob ==
    \/ CallProofOfEquivalence
    \/ CallProofOfVersionHash
    \/ CallGetKzgProofCommitment

SpecBlob == InitBlobCaller /\ [][NextBlob]_vars

\* ------------------------------------- threads using the global parameters

NextSetup ==
    \E t \in Users :
        \/ LazyDeref(t)
        \/ LazyInit(t)
        \/ LazyStore(t)
        \/ LazyGet(t)
        \/ LazyReturn(t)

SpecSetup == InitBlobCaller /\ [][NextSetup]_vars

\* --------------- the cache's threads beside a caller of the pure functions

LibFunctions ==
    {"proof_of_equivalence", "proof_of_version_hash",
     "get_kzg_proof_commitment", "commitment_to_version_hash"}

\* The inputs the caller passes: both values of the skip flag, a well-formed
\* and a truncated blob, the caller's own trust parameters or none.
LibInputs ==
    {TaikoInput(skip, [len |-> n, canonical |-> TRUE, id |-> 1], k) :
        skip \in BOOLEAN,
        n \in {BYTES_PER_BLOB - 1, BYTES_PER_BLOB},
        k \in {None, Some([name |-> "override", fails |-> "none"])}}

\* What a call of one of the functions leaves of the global.
LibLoads(fn, input, loads) ==
    IF fn = "proof_of_equivalence"
    THEN proof_of_equivalence(input, loads).loads
    ELSE IF fn = "proof_of_version_hash"
    THEN proof_of_version_hash(input, loads).loads
    ELSE IF fn = "get_kzg_proof_commitment"
    THEN get_kzg_proof_commitment(input.taiko.tx_data,
                                  input.taiko.kzg_settings[1], loads).loads
    ELSE loads

\* The process's own thread calls one of the functions of eip4844.rs:54-115
\* and 129-133 while the other threads use the cache;
\* get_kzg_proof_commitment is given trust parameters by its caller.
LibCall ==
    /\ pc = "lib"
    /\ \E fn \in LibFunctions, input \in LibInputs :
          /\ fn = "get_kzg_proof_commitment" => input.taiko.kzg_settings # None
          /\ setupLoads' = LibLoads(fn, input, setupLoads)
          /\ cell' = CellAfter(cell, setupLoads,
                               LibLoads(fn, input, setupLoads))
          /\ pc' = fn
    /\ UNCHANGED <<subscriber, nsmOpen, nextFd, keys, conn, connCount,
                   replies, ran, parsed, last, calls>>
    /\ UNCHANGED <<bcall, user>>
    /\ UNCHANGED cacheVars

LibReturn ==
    /\ pc \in LibFunctions
    /\ pc' = "lib"
    /\ UNCHANGED <<subscriber, nsmOpen, nextFd, keys, conn, connCount,
                   replies, ran, parsed, last, calls>>
    /\ UNCHANGED <<cacheVars, blobVars>>

NextLib ==
    \/ NextPoison
    \/ LibCall
    \/ LibReturn

SpecLib == InitCacheUsers /\ [][NextLib]_vars

\* ------------------------------------------------------------------ claims

Handling == {"recv", "parse", "serve"}

\* A step occurs at most once in the steps of a call.
NoStepTwice(steps) ==
    \A i, j \in 1..Len(steps) : steps[i] = steps[j] => i = j

Ran(steps, step) == \E i \in 1..Len(steps) : steps[i] = step

\* C1: whatever the clients send, handling a connection never terminates the
\* service process, and when the handling of a connection ends the accept
\* loop is back at accepting the next connection.
C1_LoopSurvivesEveryConnection ==
    /\ [](pc # "exited")
    /\ [][(pc \in Handling) => (pc' \in (Handling \cup {"accept"}))]_vars

C1_Witness ==
    /\ pc = "accept"
    /\ connCount >= 2
    /\ ran[1] = "Err"
    /\ last # NoCall
    /\ ~last.input[1].taiko.skip_verify_blob

\* C2: a connection that delivers a well-formed input with the skip flag
\* set, whose block processing, hashing, signing and device request all
\* succeed, is answered with exactly one reply carrying the attestation
\* document.
C2_SuccessfulInputIsAnswered ==
    (/\ pc = "accept"
     /\ conn.id >= 1
     /\ ran[conn.id] # "none"
     /\ last.input[1].taiko.skip_verify_blob
     /\ last.input[1].content = "valid"
     /\ last.dev = "attest"
     /\ last.clientUp)
    => /\ last.res[1].outcome = "Ok"
       /\ replies[conn.id] = <<to_string(last.res[1].document[1])>>

\* C3: every call of NitroProver::run that stops ends as Done, returning the
\* document, or as Failed, returning an error, with no step run twice.
C3_RunEndsDoneOrFailed ==
    last # NoCall =>
        LET r == last.res[1] IN
        /\ r.outcome \in {"Ok", "Err"}
        /\ r.outcome = "Ok" => r.document # None
        /\ r.outcome = "Err" => r.document = None /\ r.error # ""
        /\ NoStepTwice(r.steps)

\* C4: run returns a document only when block processing, the protocol
\* instance, signing and the device request all succeeded in that call and
\* the device answered with an attestation; when a step the call ran fails,
\* the call returns an error and no document.
C4_NoPartialAttestation ==
    last # NoCall =>
        LET r == last.res[1]
            i == last.input[1]
        IN
        /\ r.document # None =>
              /\ r.outcome = "Ok"
              /\ i.content = "valid"
              /\ last.dev = "attest"
              /\ \A step \in {"build_from", "ProtocolInstance_new", "sign",
                              "nsm_process_request"} : Ran(r.steps, step)
        /\ (\/ Ran(r.steps, "build_from") /\ i.content = "bad_block"
            \/ Ran(r.steps, "ProtocolInstance_new") /\ i.content = "bad_pi"
            \/ /\ Ran(r.steps, "nsm_process_request")
               /\ last.dev \in {"error", "other", "absent"})
           => r.outcome = "Err" /\ r.document = None

C4_Witness ==
    /\ last # NoCall
    /\ last.res[1].outcome = "Err"
    /\ last.dev = "other"
    /\ Ran(last.res[1].steps, "nsm_process_request")

ProtocolSteps ==
    {"build_from", "ProtocolInstance_new", "instance_hash", "nsm_init",
     "SigningKey_random", "sign", "nsm_process_request", "nsm_exit"}

\* C5: the skip flag is checked before any protocol step; a call whose input
\* has the flag false runs no block processing, signing or device request,
\* and a document is only ever produced for an input with the flag true.
C5_PreconditionFirst ==
    last # NoCall =>
        LET r == last.res[1]
            i == last.input[1]
        IN
        /\ \A k \in 1..Len(r.steps) :
              r.steps[k] \in ProtocolSteps =>
                 /\ \E j \in 1..(k - 1) : r.steps[j] = "skip_check"
                 /\ i.taiko.skip_verify_blob
        /\ ~i.taiko.skip_verify_blob =>
              /\ r.outcome # "Ok"
              /\ r.request = NoRequest
              /\ \A step \in ProtocolSteps : ~Ran(r.steps, step)
        /\ r.document # None => i.taiko.skip_verify_blob

C5_Witness ==
    /\ last # NoCall
    /\ ~last.input[1].taiko.skip_verify_blob
    /\ Ran(last.res[1].steps, "skip_check")
    /\ last.res[1].outcome = "Exit"

\* C6: when run returns an error nothing is written to that connection and
\* the next connection is accepted; a reply is written on a connection only
\* when run returned Ok for the input read from it, and at most once.
C6_ReplyOnlyAfterOk ==
    /\ [](\A c \in ConnIds :
            /\ Len(replies[c]) <= 1
            /\ replies[c] # <<>> => ran[c] = "Ok"
            /\ ran[c] = "Err" => replies[c] = <<>>)
    /\ [][(pc = "serve" /\ ran'[conn.id] = "Err") => pc' = "accept"]_vars

C6_Witness ==
    /\ connCount >= 2
    /\ ran[1] = "Err"
    /\ replies[1] = <<>>
    /\ pc = "recv"
    /\ conn.id = 2

\* What main() gets from the frame of the connection.
Unreadable(frame) == ~recv_message(frame).ok
Unparseable(frame) ==
    recv_message(frame).ok /\ ~from_slice(recv_message(frame).value).ok

\* C7: a connection whose frame cannot be read in full, or whose payload is
\* no GuestInput, is abandoned without run being invoked and without a reply,
\* the loop goes back to accepting, and deserialization is only ever
\* attempted on a message that was received whole.
C7_MalformedIsAbandoned ==
    /\ [](\A c \in ConnIds :
            /\ parsed[c] # "partial"
            /\ ran[c] # "none" => parsed[c] = "whole")
    /\ []((pc = "accept" /\ conn.id >= 1
           /\ (Unreadable(conn.frame) \/ Unparseable(conn.frame)))
          => ran[conn.id] = "none" /\ replies[conn.id] = <<>>)
    /\ [][(pc \in Handling
           /\ (Unreadable(conn.frame) \/ Unparseable(conn.frame)))
          => (pc' \in {"parse", "accept"} /\ last' = last /\ ran' = ran
              /\ replies' = replies)]_vars

C7_Witness ==
    /\ pc = "recv"
    /\ conn.id = 3
    /\ ran = [c \in ConnIds |-> "none"]
    /\ parsed[1] = "none"
    /\ parsed[2] = "whole"

\* The pair each set_commitment_proof call of the model is to leave.
ExpectedPair ==
    [b \in Blobs |->
        <<commitment_to_version_hash(CommitmentBytes(b)), ProofBytes(b)>>]

WrittenPairs == {InitialPair} \cup {ExpectedPair[b] : b \in Blobs}

Reading == {"read_hash", "read_proof", "read_done"}

\* C8: under every interleaving of writers and readers, a pair a reader has
\* copied out is the initial pair or the pair of one set_commitment_proof
\* call, never the hash of one call with the proof of another, and no reader
\* is reading while a writer holds the lock.
C8_ReadersSeeWholePairs ==
    /\ \A t \in Threads :
          /\ th[t].pc = "read_done" => th[t].copy \in WrittenPairs
          /\ th[t].pc \in Reading => lockWriter = 0 /\ t \in lockReaders
    /\ lockWriter # 0 => lockReaders = {}

C8_Witness ==
    \E t, u \in Threads :
        /\ th[t].pc = "read_done"
        /\ th[t].copy = ExpectedPair[2]
        /\ th[u].pc = "set_lock"
        /\ th[u].blob = 1
        /\ lastSet = 2

\* C9: once a set_commitment_proof(proof, commitment) has returned, a read
\* with no other write in between yields the version hash of that
\* commitment with that proof, whatever the cache held before.
C9_ReadAfterSetYieldsWrittenPair ==
    lastSet # 0 =>
        /\ lockWriter = 0 => cache = ExpectedPair[lastSet]
        /\ \A t \in Threads :
              th[t].pc = "read_done" => th[t].copy = ExpectedPair[lastSet]

C9_Witness ==
    \E t \in Threads :
        /\ th[t].pc = "read_done"
        /\ lastSet = 1
        /\ th[t].copy = ExpectedPair[1]
        /\ th[t].copy # ExpectedPair[2]
        /\ th[t].copy[1][1] = VERSIONED_HASH_VERSION_KZG

\* C10: with the skip flag set, proof_of_equivalence and
\* proof_of_version_hash return Ok(None) for every blob, also one of wrong
\* length or with a non-canonical field element, without deserializing the
\* blob and without touching the trust parameters.
C10_SkipReturnsNone ==
    (/\ bcall.fn \in {"proof_of_equivalence", "proof_of_version_hash"}
     /\ bcall.input[1].taiko.skip_verify_blob)
    => /\ bcall.res[1].ret = Ok(None)
       /\ bcall.res[1].steps = <<>>
       /\ bcall.res[1].loads = bcall.loads0
       /\ setupLoads = bcall.loads0

C10_Witness ==
    /\ bcall.fn = "proof_of_equivalence"
    /\ bcall.input[1].taiko.skip_verify_blob
    /\ bcall.input[1].taiko.tx_data.len # BYTES_PER_BLOB
    /\ ~bcall.input[1].taiko.tx_data.canonical
    /\ bcall.input[1].taiko.kzg_settings = None
    /\ bcall.res[1].ret = Ok(None)
    /\ setupLoads = 0

\* C11: a set_commitment_proof call that finds the lock poisoned returns the
\* SetCommitmentProof error, is not tried again, and leaves the cached pair
\* as it was.
C11_PoisonedSetFails ==
    /\ [](\A t \in Threads :
            th[t].pc \in {"set_store_hash", "set_store_proof", "set_unlock"}
               => ~poisoned /\ lockWriter = t)
    /\ [][\A t \in Threads :
            (th[t].pc = "set_lock" /\ poisoned /\ th'[t] # th[t])
               => (th'[t].pc = "set_err" /\ cache' = cache
                   /\ lockWriter' = lockWriter /\ lastSet' = lastSet)]_vars
    /\ [][\A t \in Threads :
            (th[t].pc = "set_err" /\ th'[t] # th[t])
               => (th'[t] = Idle /\ cache' = cache)]_vars
    /\ [][poisoned => cache' = cache]_vars

C11_Witness ==
    \E t \in Threads :
        /\ poisoned
        /\ th[t].pc = "set_err"
        /\ lastSet # 0
        /\ cache # ExpectedPair[lastSet]
        /\ cache[2] = ExpectedPair[lastSet][2]

\* A blob of wrong length or with a non-canonical field element.
Malformed(blob) == blob.len # BYTES_PER_BLOB \/ ~blob.canonical

\* The trust parameters a recorded call computed with.
SettingsOf(input) ==
    IF input.taiko.kzg_settings = None THEN Mainnet
    ELSE input.taiko.kzg_settings[1]

\* C12: a non-skipped call of proof_of_equivalence, proof_of_version_hash or
\* get_kzg_proof_commitment on a blob of wrong length or invalid field
\* encoding returns exactly the DeserializeBlob error; on a well-formed blob
\* a failure of the library's commitment, evaluation or proof computation is
\* returned as ComputeKzgProof or EvaluatePolynomial with the library's
\* message, and no other error is returned.
C12_BlobErrorsAreValues ==
    (bcall.fn # "none" /\ ~bcall.input[1].taiko.skip_verify_blob)
    => LET fn == bcall.fn
           blob == bcall.input[1].taiko.tx_data
           k == SettingsOf(bcall.input[1])
           ret == bcall.res[1].ret
           fields == [fields_of |-> blob.id]
           evalFails == fn = "proof_of_equivalence" /\ k.fails = "evaluate"
           commitFails == /\ fn \in {"proof_of_version_hash",
                                     "get_kzg_proof_commitment"}
                          /\ k.fails = "commit"
           proveFails == fn = "get_kzg_proof_commitment" /\ k.fails = "prove"
       IN /\ Malformed(blob) => ret = Err("DeserializeBlob", "")
          /\ (~Malformed(blob) /\ evalFails)
                => ret = Err("EvaluatePolynomial",
                             evaluate_polynomial_in_evaluation_form(
                                 fields, fields, k).msg)
          /\ (~Malformed(blob) /\ commitFails)
                => ret = Err("ComputeKzgProof",
                             blob_to_kzg_commitment_rust(fields, k).msg)
          /\ (~Malformed(blob) /\ proveFails)
                => ret = Err("ComputeKzgProof",
                             compute_kzg_proof_rust(fields, fields, k).msg)
          /\ ~ret.ok => \/ Malformed(blob)
                        \/ evalFails \/ commitFails \/ proveFails

C12_Witness ==
    /\ bcall.fn = "proof_of_equivalence"
    /\ ~bcall.input[1].taiko.skip_verify_blob
    /\ bcall.input[1].taiko.kzg_settings = None
    /\ bcall.input[1].taiko.tx_data.len = BYTES_PER_BLOB + 1
    /\ bcall.res[1].ret = Err("DeserializeBlob", "")
    /\ setupLoads = 1

\* C13: the global trust parameters are constructed at most once, by a
\* thread that is dereferencing the global and not before, also when several
\* threads dereference it for the first time together; every thread gets the
\* one stored handle, and the stored handle never changes.
C13_GlobalBuiltOnce ==
    /\ [](setupLoads <= 1)
    /\ []((setupLoads = 0) <=> (cell.state = "incomplete"))
    /\ [](\A t \in Users :
            user[t].handle # None
               => (cell.state = "complete" /\ user[t].handle = cell.handle))
    /\ [][setupLoads' # setupLoads
            => \E t \in Users : user[t].pc = "deref"]_vars
    /\ [][cell.state = "complete" => cell' = cell]_vars

C13_Witness ==
    /\ setupLoads = 1
    /\ cell.state = "complete"
    /\ \A t \in Users : user[t].pc = "using" /\ user[t].uses = 0

\* The SHA-256 digest of the commitment of each blob.
DigestOfCommitment == [b \in Blobs |-> Sha256_digest(CommitmentBytes(b))]

\* The commitment of the all-zero blob and its version hash, as the test of
\* eip4844.rs:170-178 states them.
ZeroBlobCommitment == [k \in 1..48 |-> IF k = 1 THEN 192 ELSE 0]
ZeroBlobVersionHash ==
    <<1, 6, 87, 243, 117, 84, 199, 129, 64, 42, 34, 145, 125, 238, 47, 117,
      222, 247, 171, 150, 109, 123, 119, 9, 5, 57, 142, 186, 60, 68, 64, 20>>
ZeroBlobHashed == commitment_to_version_hash(ZeroBlobCommitment)

Setting == {"set_lock", "set_store_hash", "set_store_proof", "set_unlock"}

\* C14: the version hash computed from a commitment has 32 bytes, its first
\* byte is 0x01, its other 31 bytes are those of the SHA-256 digest of the
\* commitment, and equal commitments give equal version hashes.
C14_VersionHashOfDigest ==
    /\ \A t \in Threads :
          th[t].pc \in Setting
             => LET h == th[t].version_hash
                    d == DigestOfCommitment[th[t].blob]
                IN /\ DOMAIN h = 1..32
                   /\ h[1] = 1
                   /\ \A k \in 2..32 : h[k] = d[k]
    /\ \A t, u \in Threads :
          (th[t].pc \in Setting /\ th[u].pc \in Setting
             /\ CommitmentBytes(th[t].blob) = CommitmentBytes(th[u].blob))
             => th[t].version_hash = th[u].version_hash
    /\ ZeroBlobHashed = ZeroBlobVersionHash

C14_Witness ==
    \E t, u \in Threads :
        /\ t # u
        /\ th[t].pc \in Setting /\ th[u].pc \in Setting
        /\ th[t].blob = th[u].blob
        /\ th[t].version_hash[1] = 1
        /\ DigestOfCommitment[th[t].blob][1] # 1

\* The protocol-instance hash NitroProver::run computes for an input.
InstanceHashOf(input) ==
    instance_hash(ProtocolInstance_new(input, build_from(input).value[1]).value)

\* C15: a request NitroProver::run sends to the device is an attestation
\* request whose user_data is the signature, by the key drawn in that call,
\* over the protocol-instance hash of the call's input, whose public_key is
\* the public key of that same key, and whose nonce is absent.
C15_RequestIsSignedAttestation ==
    [][(calls' # calls /\ Ran(last'.res[1].steps, "nsm_process_request"))
          => LET request == last'.res[1].request
                 input == last'.input[1]
             IN /\ keys' = keys + 1
                /\ request.kind = "Attestation"
                /\ request.user_data = Some(sign(keys', InstanceHashOf(input)))
                /\ request.public_key = Some(VerifyingKey_from(keys'))
                /\ request.nonce = None]_vars

C15_Witness ==
    /\ pc = "host"
    /\ last.res # None
    /\ last.dev = "error"
    /\ Ran(last.res[1].steps, "nsm_process_request")
    /\ last.res[1].request.kind = "Attestation"
    /\ last.res[1].request.user_data = Some(sign(1, InstanceHashOf(last.input[1])))

Storing == {"set_store_hash", "set_store_proof"}

\* C17: the cache is the pair of the zero hash and 48 zero bytes until a
\* set_commitment_proof call that holds the write lock stores into it, and
\* the only steps of the library that change it are the stores of such a
\* call: calls of proof_of_equivalence, proof_of_version_hash,
\* get_kzg_proof_commitment and commitment_to_version_hash and a
\* set_commitment_proof call that returns its error leave it as it was.
\* (The writer that panics, which is outside the library, is set aside.)
C17_OnlySuccessfulSetWrites ==
    /\ []((/\ lastSet = 0
           /\ ~poisoned
           /\ \A t \in Threads : th[t].pc \notin {"set_store_proof",
                                                  "set_unlock"})
          => cache = <<[k \in 1..32 |-> 0], [k \in 1..48 |-> 0]>>)
    /\ [][(cache' # cache /\ poisoned' = poisoned)
            => \E t \in Threads :
                  /\ th[t].pc \in Storing
                  /\ lockWriter = t
                  /\ th'[t].pc # th[t].pc
                  /\ ~poisoned]_vars
    /\ [][\A t \in Threads :
            (th'[t] # th[t]
               /\ (th[t].pc \in {"set_err", "idle"} \/ th'[t].pc = "set_err"))
               => cache' = cache]_vars
    /\ [][pc' # pc => cache' = cache]_vars

C17_Witness ==
    \E t \in Threads :
        /\ th[t].pc = "set_err"
        /\ pc = "proof_of_version_hash"
        /\ setupLoads = 1
        /\ lastSet # 0
        /\ cache = ExpectedPair[lastSet]

GlobalUsers == {"proof_of_equivalence", "proof_of_version_hash"}

\* C18: a call of proof_of_equivalence or proof_of_version_hash whose input
\* carries trust parameters computes with them and neither constructs nor
\* reads the global ones; the global ones are constructed only by a
\* non-skipped call of one of the two whose input carries none.
C18_OverrideSparesGlobal ==
    bcall.fn # "none" =>
        LET i == bcall.input[1].taiko
            r == bcall.res[1]
        IN
        /\ (bcall.fn \in GlobalUsers /\ i.kzg_settings # None)
              => /\ ~Ran(r.steps, "MAINNET_KZG_TRUSTED_SETUP")
                 /\ setupLoads = bcall.loads0
                 /\ bcall.loads0 = 0 => cell = EmptyCell
                 /\ (bcall.fn = "proof_of_equivalence" /\ r.ret.ok
                       /\ ~i.skip_verify_blob)
                       => r.ret.value[1][1].with = i.kzg_settings[1].name
                 /\ (~i.skip_verify_blob /\ ~Malformed(i.tx_data)
                       /\ \/ /\ bcall.fn = "proof_of_equivalence"
                             /\ i.kzg_settings[1].fails = "evaluate"
                          \/ /\ bcall.fn = "proof_of_version_hash"
                             /\ i.kzg_settings[1].fails = "commit")
                       => ~r.ret.ok
        /\ (setupLoads # bcall.loads0 \/ Ran(r.steps, "MAINNET_KZG_TRUSTED_SETUP"))
              => /\ bcall.fn \in GlobalUsers
                 /\ ~i.skip_verify_blob
                 /\ i.kzg_settings = None

C18_Witness ==
    /\ bcall.fn = "proof_of_equivalence"
    /\ bcall.count = 2
    /\ ~bcall.input[1].taiko.skip_verify_blob
    /\ bcall.input[1].taiko.kzg_settings # None
    /\ bcall.res[1].ret.ok
    /\ bcall.res[1].ret.value[1][1].with = "override"
    /\ setupLoads = 0

\* C19: the first step of every NitroProver::run call is the installation of
\* the global tracing subscriber, and a call made while a subscriber is
\* installed returns an error right there: it does not test the skip flag,
\* process the block, draw a key, sign, or open or ask the device.
C19_SecondInstallFailsFirst ==
    /\ [](last # NoCall => last.res[1].steps[1] = "set_global_default")
    /\ [][((calls' # calls \/ last' # last) /\ subscriber)
            => /\ last'.res[1].outcome = "Err"
               /\ last'.res[1].error = "subscriber"
               /\ last'.res[1].steps = <<"set_global_default">>
               /\ last'.res[1].request = NoRequest
               /\ last'.res[1].document = None
               /\ nsmOpen' = nsmOpen /\ nextFd' = nextFd /\ keys' = keys
               /\ subscriber'
               /\ pc' \in {"host", "accept"}]_vars

C19_Witness ==
    /\ calls = 2
    /\ last.input[1].taiko.skip_verify_blob
    /\ last.input[1].content = "valid"
    /\ last.dev = "attest"
    /\ last.res[1].outcome = "Err"
    /\ last.res[1].steps = <<"set_global_default">>
    /\ keys = 1

\* C20: when a NitroProver::run call has returned, every device handle that
\* nsm_init opened in it has been closed by nsm_exit, whether the call
\* returned a document or an error: between calls no handle is open.
C20_NoHandleLeftOpen ==
    (pc = "host" /\ last # NoCall)
    => /\ nsmOpen = {}
       /\ (Ran(last.res[1].steps, "nsm_init") /\ last.dev # "absent")
             => Ran(last.res[1].steps, "nsm_exit")

====
